---- MODULE Spec2Model ----
(***************************************************************************)
(* HYDROLIB-core: the file-backed model lifecycle (FileModel: construct    *)
(* with a location, recursive save over the model graph) and the .bui      *)
(* document format built on it (BuiModel).                                 *)
(***************************************************************************)
EXTENDS Integers, Sequences, FiniteSets, TLC

VARIABLES
    fields,     \* fields[n][name]: the field values of FileModel instance n
    cls,        \* cls[n]: the concrete format (class) of instance n
    folder,     \* the folder argument of the save call in progress
    stack,      \* the save frames, innermost last: [self, idx, filemodel_fields]
    log,        \* what the save call in progress did, in order
    disk,       \* the files written: absolute location string -> content
    now,        \* the clock read by the serializer
    history,    \* the completed top-level save calls, oldest first
    cfile,      \* the file at the location a constructor is given
    ctor,       \* the last constructor call: its arguments and what came of it
    dur         \* an event duration on its way through the header text

saveVars == <<fields, cls, folder, stack, log, disk, now, history>>

ctorVars == <<cfile, ctor>>

vars == <<saveVars, ctorVars, dur>>

----------------------------------------------------------------------------
(* Bounds *)

MaxSaves == 2
MaxClock == 1
RecursionLimit == 4

Nodes == {1, 2, 3}
Root == 1

----------------------------------------------------------------------------
(* Values held by fields *)

None == [t |-> "none"]
IntVal(i) == [t |-> "int", v |-> i]
StrVal(s) == [t |-> "str", v |-> s]
TextVal(chars) == [t |-> "text", v |-> chars]
ListVal(items) == [t |-> "list", v |-> items]
EventsVal(events) == [t |-> "events", v |-> events]
PathVal(p) == [t |-> "path", v |-> p]
ModelVal(m) == [t |-> "model", v |-> m]

isFileModel(value) == value.t = "model"

(* pathlib.Path: an anchor and the components below it *)
Path(isabs, parts) == [abs |-> isabs, parts |-> parts]

RECURSIVE JoinParts(_)
JoinParts(parts) ==
    IF Len(parts) = 0 THEN ""
    ELSE IF Len(parts) = 1 THEN parts[1]
    ELSE parts[1] \o "/" \o JoinParts(Tail(parts))

(* str(path) *)
str(p) == (IF p.abs THEN "/" ELSE "") \o JoinParts(p.parts)

Cwd == <<"work">>

(* Path.absolute(): a relative path is anchored at the working directory *)
absolute(p) == IF p.abs THEN p ELSE Path(TRUE, Cwd \o p.parts)

(* folder / name *)
Div(dir, name) == Path(dir.abs, Append(dir.parts, name))

----------------------------------------------------------------------------
(* The concrete formats *)

Formats == {"BuiModel", "FileModel"}

_filename(c) == IF c = "BuiModel" THEN "bui_file" ELSE "test"

_ext(c) == IF c = "BuiModel" THEN ".bui" ELSE ".test"

_generate_name(c) == _filename(c) \o _ext(c)

----------------------------------------------------------------------------
(* The model graph *)

FieldNames(n) ==
    IF n = Root THEN <<"filepath", "x", "a", "note", "b">>
    ELSE <<"filepath", "x", "a", "note">>

FieldSet(n) == {FieldNames(n)[i] : i \in 1..Len(FieldNames(n))}

ChildNames(n) == FieldSet(n) \cap {"a", "b"}

Folders == {Path(TRUE, <<"out">>), Path(FALSE, <<"rel">>)}

BoundPath(n) ==
    Path(FALSE, <<"in", CASE n = 1 -> "m1.bui" [] n = 2 -> "m2.bui" [] OTHER -> "m3.bui">>)

Children(fs, n) == {fs[n][c].v : c \in {d \in ChildNames(n) : isFileModel(fs[n][d])}}

RECURSIVE ReachFrom(_, _, _)
ReachFrom(fs, seen, frontier) ==
    IF frontier = {} THEN seen
    ELSE LET nxt == UNION {Children(fs, n) : n \in frontier}
         IN ReachFrom(fs, seen \cup frontier, nxt \ (seen \cup frontier))

Reach(fs, n) == ReachFrom(fs, {}, {n})

Cyclic(fs, n) == \E m \in Reach(fs, n) : \E k \in Children(fs, m) : m \in Reach(fs, k)

(* the first model other than the root that the root's fields name, in
   declaration order; 0 when there is none.  Objects have no order of their
   own, so the nested models are numbered in the order the root names them. *)
FirstReferenced(fs) ==
    LET others == {i \in 1..Len(FieldNames(Root)) :
                     /\ isFileModel(fs[Root][FieldNames(Root)[i]])
                     /\ fs[Root][FieldNames(Root)[i]].v # Root}
    IN IF others = {} THEN 0
       ELSE fs[Root][FieldNames(Root)[CHOOSE i \in others : \A j \in others : i <= j]].v

Kinds == {<<"BuiModel", FALSE>>, <<"FileModel", FALSE>>, <<"BuiModel", TRUE>>}

Init ==
    /\ \E kind \in [Nodes -> Kinds] :
       \E ch \in [{<<n, c>> \in Nodes \X {"a", "b"} : c \in ChildNames(n)} ->
                    {None} \cup {ModelVal(m) : m \in Nodes}] :
          LET fs == [n \in Nodes |->
                       [name \in FieldSet(n) |->
                          CASE name = "filepath" ->
                                 IF kind[n][2] THEN PathVal(BoundPath(n)) ELSE None
                            [] name = "x" -> IntVal(n)
                            [] name = "note" -> None
                            [] OTHER -> ch[<<n, name>>]]]
          IN /\ \A n \in Nodes \ Reach(fs, Root) :
                   kind[n] = <<"BuiModel", FALSE>> /\ Children(fs, n) = {}
             /\ FirstReferenced(fs) \in {0, Root, Root + 1}
             /\ fields = fs
             /\ cls = [n \in Nodes |-> kind[n][1]]
    /\ folder = None
    /\ stack = <<>>
    /\ log = <<>>
    /\ disk = <<>>
    /\ now = 0
    /\ history = <<>>
    /\ cfile = None
    /\ ctor = None
    /\ dur = None

----------------------------------------------------------------------------
(* FileModel.save *)

(* a save that re-anchors a bound location in the folder on every call *)
ResolveFilepathRebase(fs, c, n, dir) ==
    IF fs[n]["filepath"] = None
    THEN [fs EXCEPT ![n]["filepath"] = PathVal(Div(dir, _generate_name(c[n])))]
    ELSE [fs EXCEPT ![n]["filepath"] =
              PathVal(Path(dir.abs, dir.parts \o fs[n]["filepath"].v.parts))]

(* lines 59-60: a location is generated only when none is bound *)
ResolveFilepath(fs, c, n, dir) ==
    IF fs[n]["filepath"] = None
    THEN [fs EXCEPT ![n]["filepath"] = PathVal(Div(dir, _generate_name(c[n])))]
    ELSE fs

(* a loop that takes the nested fields from the last declared one *)
LastFileModelField(fs, n, idx) ==
    LET hits == {i \in idx..Len(FieldNames(n)) : isFileModel(fs[n][FieldNames(n)[i]])}
    IN IF hits = {} THEN 0 ELSE CHOOSE i \in hits : \A j \in hits : i >= j

(* lines 65-66: the next field, in declaration order from position idx on,
   that holds a FileModel; 0 when the loop runs out *)
NextFileModelField(fs, n, idx) ==
    LET hits == {i \in idx..Len(FieldNames(n)) : isFileModel(fs[n][FieldNames(n)[i]])}
    IN IF hits = {} THEN 0 ELSE CHOOSE i \in hits : \A j \in hits : i <= j

(* a flattening that takes the excluded fields for the ones to include *)
ModelDictIncluding(entity, exclude) ==
    [name \in {f \in DOMAIN entity \cap exclude : entity[f] # None} |-> entity[name]]

(* lines 72-75: self.dict(exclude=exclude, exclude_none=True) *)
ModelDict(entity, exclude) ==
    [name \in {f \in DOMAIN entity \ exclude : entity[f] # None} |-> entity[name]]

(* line 76: data.update(filemodel_fields) *)
Update(data, other) ==
    [name \in DOMAIN data \cup DOMAIN other |->
        IF name \in DOMAIN other THEN other[name] ELSE data[name]]

(* the format's serializer: the text written holds the location it was
   handed, the time of construction and the rendered mapping *)
Serializer(filepath, data, time) ==
    [name |-> str(filepath), time |-> time, data |-> data]

(* lines 82-83: _serialize writes the file at self.filepath *)
WriteFile(d, filepath, content) ==
    LET key == str(absolute(filepath))
    IN [k \in DOMAIN d \cup {key} |-> IF k = key THEN content ELSE d[k]]

(* a save that returns the location as bound, not made absolute *)
SaveReturnAsBound(filepath) == str(filepath)

(* line 80: return str(self.filepath.absolute()) *)
SaveReturn(filepath) == str(absolute(filepath))

(* a completed call that returned, not raised *)
Ok(h) == h.ret \notin {"RecursionError", "KeyError"}

Frame(n) == [self |-> n, idx |-> 1, fm |-> <<>>]

Top == stack[Len(stack)]

(* a top-level call model.save(folder), lines 56-60 *)
SaveCall(dir) ==
    /\ stack = <<>>
    /\ Len(history) < MaxSaves
    /\ folder' = PathVal(dir)
    /\ fields' = ResolveFilepath(fields, cls, Root, dir)
    /\ stack' = <<Frame(Root)>>
    /\ log' = <<[ev |-> "enter", node |-> Root, was |-> fields[Root]["filepath"]]>>
    /\ UNCHANGED <<cls, disk, now, history, ctorVars, dur>>

(* line 67: value.save(folder) on the next nested FileModel field, and the
   callee's lines 59-60 *)
SaveRecurse ==
    /\ stack # <<>>
    /\ LET i == NextFileModelField(fields, Top.self, Top.idx)
       IN /\ i # 0
          /\ Len(stack) < RecursionLimit
          /\ LET child == fields[Top.self][FieldNames(Top.self)[i]].v
             IN /\ fields' = ResolveFilepath(fields, cls, child, folder.v)
                /\ stack' = Append([stack EXCEPT ![Len(stack)].idx = i], Frame(child))
                /\ log' = Append(log, [ev |-> "enter", node |-> child,
                                        was |-> fields[child]["filepath"]])
    /\ UNCHANGED <<cls, folder, disk, now, history, ctorVars, dur>>

(* line 67 with the interpreter's stack exhausted: RecursionError unwinds
   every frame; nothing catches it *)
SaveRecursionError ==
    /\ stack # <<>>
    /\ NextFileModelField(fields, Top.self, Top.idx) # 0
    /\ Len(stack) >= RecursionLimit
    /\ stack' = <<>>
    /\ history' = Append(history, [folder |-> folder.v, ret |-> "RecursionError",
                                   content |-> None, log |-> log])
    /\ UNCHANGED <<fields, cls, folder, log, disk, now, ctorVars, dur>>

(* lines 71-80, and the caller's lines 68-69 on return *)
SaveSerialize ==
    /\ stack # <<>>
    /\ NextFileModelField(fields, Top.self, Top.idx) = 0
    /\ LET n == Top.self
           filepath == fields[n]["filepath"].v
           exclude == {"filepath"} \cup DOMAIN Top.fm
           data == Update(ModelDict(fields[n], exclude), Top.fm)
           content == Serializer(filepath, data, now)
           ret == SaveReturn(filepath)
           entry == [ev |-> "write", node |-> n, ret |-> ret, content |-> content]
       IN /\ disk' = WriteFile(disk, filepath, content)
          /\ log' = Append(log, entry)
          /\ IF Len(stack) = 1
             THEN /\ stack' = <<>>
                  /\ history' = Append(history, [folder |-> folder.v, ret |-> ret,
                                                 content |-> content,
                                                 log |-> Append(log, entry)])
             ELSE LET parent == stack[Len(stack) - 1]
                      name == FieldNames(parent.self)[parent.idx]
                      back == [parent EXCEPT
                                 !.fm = Update(parent.fm, [f \in {name} |-> StrVal(ret)]),
                                 !.idx = parent.idx + 1]
                  IN /\ stack' = Append(SubSeq(stack, 1, Len(stack) - 2), back)
                     /\ UNCHANGED history
    /\ UNCHANGED <<fields, cls, folder, now, ctorVars, dur>>

(* the clock the serializer reads moves on between two calls *)
Tick ==
    /\ stack = <<>>
    /\ history # <<>>
    /\ now < MaxClock
    /\ now' = now + 1
    /\ UNCHANGED <<fields, cls, folder, stack, log, disk, history, ctorVars, dur>>

Next ==
    \/ \E dir \in Folders : SaveCall(dir)
    \/ SaveRecurse
    \/ SaveRecursionError
    \/ SaveSerialize
    \/ Tick

Spec == Init /\ [][Next]_vars

----------------------------------------------------------------------------
(* Text: a line is a sequence of characters, a file a sequence of lines *)

Digits == <<"0", "1", "2", "3", "4", "5", "6", "7", "8", "9">>

IsDigit(ch) == \E d \in 1..10 : Digits[d] = ch

DigitValue(ch) == (CHOOSE d \in 1..10 : Digits[d] = ch) - 1

(* str(n) for n >= 0 *)
RECURSIVE IntToChars(_)
IntToChars(n) ==
    IF n < 10 THEN <<Digits[n + 1]>>
    ELSE IntToChars(n \div 10) \o <<Digits[(n % 10) + 1]>>

IsIntToken(tok) == Len(tok) > 0 /\ \A i \in DOMAIN tok : IsDigit(tok[i])

(* int(tok) for a token of digits *)
RECURSIVE CharsToInt(_)
CharsToInt(tok) ==
    IF Len(tok) = 0 THEN 0
    ELSE 10 * CharsToInt(SubSeq(tok, 1, Len(tok) - 1)) + DigitValue(tok[Len(tok)])

(* str(x) for a float x >= 0 with one decimal, held as a number of tenths *)
FloatToChars(tenths) == IntToChars(tenths \div 10) \o <<".", Digits[(tenths % 10) + 1]>>

IsFloatToken(tok) ==
    \/ IsIntToken(tok)
    \/ /\ Len(tok) >= 3
       /\ tok[Len(tok) - 1] = "."
       /\ IsDigit(tok[Len(tok)])
       /\ IsIntToken(SubSeq(tok, 1, Len(tok) - 2))

(* float(tok), in tenths *)
CharsToFloat(tok) ==
    IF IsIntToken(tok) THEN 10 * CharsToInt(tok)
    ELSE 10 * CharsToInt(SubSeq(tok, 1, Len(tok) - 2)) + DigitValue(tok[Len(tok)])

(* " ".join(tokens) *)
RECURSIVE JoinTokens(_)
JoinTokens(toks) ==
    IF Len(toks) = 0 THEN <<>>
    ELSE IF Len(toks) = 1 THEN toks[1]
    ELSE toks[1] \o <<" ">> \o JoinTokens(Tail(toks))

(* line.split(): the maximal runs of non-blank characters *)
Split(line) ==
    LET Acc[i \in 0..Len(line)] ==
            IF i = 0 THEN [toks |-> <<>>, cur |-> <<>>]
            ELSE LET a == Acc[i - 1]
                 IN IF line[i] = " "
                    THEN IF a.cur = <<>> THEN a
                         ELSE [toks |-> Append(a.toks, a.cur), cur |-> <<>>]
                    ELSE [toks |-> a.toks, cur |-> Append(a.cur, line[i])]
        last == Acc[Len(line)]
    IN IF last.cur = <<>> THEN last.toks ELSE Append(last.toks, last.cur)

Comment(text) == <<"*">> \o text

IsComment(line) == Len(line) > 0 /\ line[1] = "*"

----------------------------------------------------------------------------
(* The .bui serializer *)

SecondsPerDay == 86400
SecondsPerHour == 3600
SecondsPerMinute == 60

(* a duration that takes the minutes from the whole remainder of the day *)
DecomposeWithoutHourRemainder(total) ==
    LET r == total % SecondsPerDay
    IN <<total \div SecondsPerDay, r \div SecondsPerHour,
         r \div SecondsPerMinute, r % SecondsPerMinute>>

(* the duration of an event as days, hours, minutes, seconds *)
Decompose(total) ==
    LET days == total \div SecondsPerDay
        r == total % SecondsPerDay
        hours == r \div SecondsPerHour
        r2 == r % SecondsPerHour
    IN <<days, hours, r2 \div SecondsPerMinute, r2 % SecondsPerMinute>>

(* BuiSerializer.serialize_timeseries_length: "d h m s" *)
serialize_timeseries_length(total) ==
    JoinTokens([i \in 1..4 |-> IntToChars(Decompose(total)[i])])

(* BuiSerializer.serialize_start_time: "Y M D h m s" *)
serialize_start_time(start) == JoinTokens([i \in 1..6 |-> IntToChars(start[i])])

(* BuiSerializer.serialize_stations_ids: the names joined by one space *)
serialize_stations_ids(names) == JoinTokens(names)

(* BuiSerializer.serialize_precipitation_per_timestep: one line per row *)
serialize_precipitation_per_timestep(rows) ==
    [i \in DOMAIN rows |->
        JoinTokens([j \in DOMAIN rows[i] |-> FloatToChars(rows[i][j])])]

RECURSIVE SerializeEvents(_)
SerializeEvents(events) ==
    IF Len(events) = 0 THEN <<>>
    ELSE LET e == events[1]
         IN <<serialize_start_time(e.start_time) \o <<" ">>
                \o serialize_timeseries_length(e.timeseries_length)>>
            \o serialize_precipitation_per_timestep(e.precipitation_per_timestep)
            \o SerializeEvents(Tail(events))

BuiFields == {"default_dataset", "number_of_stations", "name_of_stations",
              "number_of_events", "seconds_per_timestep", "precipitation_events"}

(* BuiSerializer.serialize: the layout of a .bui file *)
BuiSerialize(location, data, time) ==
    << Comment(<<"Name of this file: ", location>>),
       Comment(<<"Date and time of construction: ", time>>),
       Comment(<<"Comments are following an * (asterisk) and written above variables">>),
       IntToChars(data["default_dataset"].v),
       Comment(<<"Number of stations">>),
       IntToChars(data["number_of_stations"].v),
       Comment(<<"Station Name">>),
       serialize_stations_ids(data["name_of_stations"].v),
       Comment(<<"Number_of_events seconds_per_timestamp">>),
       IntToChars(data["number_of_events"].v) \o <<" ">>
           \o IntToChars(data["seconds_per_timestep"].v),
       Comment(<<"Start datetime and number of timestamps in the format: yyyy#m#d:#h#m#s:#d#h#m#s">>),
       Comment(<<"Observations per timestamp (row) and per station (column)">>) >>
    \o SerializeEvents(data["precipitation_events"].v)

(* write_bui_file(path, data): the text written, or KeyError when the
   mapping lacks a field of the layout *)
write_bui_file(filepath, data, time) ==
    IF BuiFields \subseteq DOMAIN data
    THEN [kind |-> "bui", lines |-> BuiSerialize(str(filepath), data, time)]
    ELSE [kind |-> "KeyError"]

----------------------------------------------------------------------------
(* The .bui parser *)

(* the header's four duration integers as an elapsed time:
   timedelta(days, hours, minutes, seconds) *)
HeaderDuration(dd, hh, mm, ss) ==
    dd * SecondsPerDay + hh * SecondsPerHour + mm * SecondsPerMinute + ss

HeaderTokens == 10

IsHeader(line) ==
    LET toks == Split(line)
    IN Len(toks) = HeaderTokens /\ \A i \in DOMAIN toks : IsIntToken(toks[i])

(* BuiEventParser.parse on the header line: start time and duration *)
ParseHeader(line) ==
    LET n == [i \in 1..HeaderTokens |-> CharsToInt(Split(line)[i])]
    IN [start_time |-> <<n[1], n[2], n[3], n[4], n[5], n[6]>>,
        timeseries_length |-> HeaderDuration(n[7], n[8], n[9], n[10]),
        precipitation_per_timestep |-> <<>>]

(* the event blocks: a header, then rows up to the next header *)
ParseEvents(lines) ==
    LET Acc[i \in 0..Len(lines)] ==
            IF i = 0 THEN [ok |-> TRUE, events |-> <<>>]
            ELSE LET a == Acc[i - 1]
                     k == Len(a.events)
                 IN IF ~a.ok THEN a
                    ELSE IF IsHeader(lines[i])
                         THEN [a EXCEPT !.events = Append(@, ParseHeader(lines[i]))]
                    ELSE IF k = 0 THEN [a EXCEPT !.ok = FALSE]
                    ELSE [a EXCEPT !.events[k].precipitation_per_timestep =
                                       Append(@, Split(lines[i]))]
    IN Acc[Len(lines)]

(* BuiParser.parse on the text of a file: the field mapping, values left as
   text, or FormatError *)
BuiParse(text) ==
    LET lines == SelectSeq(text, LAMBDA l : ~IsComment(l))
        failed == [err |-> "FormatError", data |-> <<>>]
    IN IF Len(lines) < 5 THEN failed
       ELSE LET l1 == Split(lines[1])
                l2 == Split(lines[2])
                l4 == Split(lines[4])
                ev == ParseEvents(SubSeq(lines, 5, Len(lines)))
            IN IF \/ Len(l1) # 1 \/ ~IsIntToken(l1[1])
                  \/ Len(l2) # 1 \/ ~IsIntToken(l2[1])
                  \/ Len(l4) # 2 \/ ~IsIntToken(l4[1]) \/ ~IsIntToken(l4[2])
                  \/ ~ev.ok
               THEN failed
               ELSE [err |-> "none",
                     data |-> [name \in BuiFields |->
                        CASE name = "default_dataset" -> TextVal(l1[1])
                          [] name = "number_of_stations" -> TextVal(l2[1])
                          [] name = "name_of_stations" -> ListVal(Split(lines[3]))
                          [] name = "number_of_events" -> TextVal(l4[1])
                          [] name = "seconds_per_timestep" -> TextVal(l4[2])
                          [] OTHER -> EventsVal(ev.events)]]

----------------------------------------------------------------------------
(* FileModel.__init__ *)

Keys == {"default_dataset", "number_of_stations"}

Mappings(values) == UNION {[ks -> values] : ks \in SUBSET Keys}

(* what may lie at the location: nothing, text the parser rejects, or text
   of a format whose parser yields the mapping it holds *)
FileStates ==
    {[kind |-> "missing"], [kind |-> "malformed"]}
        \cup {[kind |-> "text", mapping |-> m] :
                 m \in Mappings({TextVal(<<"1">>), TextVal(<<"2">>)})}

(* the format's parser: location -> field mapping, values left as text;
   LoadError for a missing file, FormatError for a malformed one *)
Parse(file) ==
    CASE file.kind = "missing" -> [err |-> "LoadError", data |-> <<>>]
      [] file.kind = "malformed" -> [err |-> "FormatError", data |-> <<>>]
      [] file.kind = "bui" -> BuiParse(file.lines)
      [] OTHER -> [err |-> "none", data |-> file.mapping]

(* lines 53-54 and 85-87: _load is the bound parser on the location *)
_load(file) == Parse(file)

(* the file a location names *)
FileAt(d, key) == IF key \in DOMAIN d THEN d[key] ELSE [kind |-> "missing"]

Invalid == [t |-> "invalid"]

(* integer coercion of one value: an int, or text holding one *)
ToInt(value) ==
    CASE value.t = "int" -> value
      [] value.t = "text" /\ IsIntToken(value.v) -> IntVal(CharsToInt(value.v))
      [] OTHER -> Invalid

(* List[List[float]]: every token of every row coerced *)
RowsValid(rows) ==
    \A i \in DOMAIN rows : \A j \in DOMAIN rows[i] : IsFloatToken(rows[i][j])

ToRows(rows) ==
    [i \in DOMAIN rows |-> [j \in DOMAIN rows[i] |-> CharsToFloat(rows[i][j])]]

(* BuiPrecipitationEventList from the parsed events *)
ToEvents(value) ==
    IF value.t # "events" THEN Invalid
    ELSE IF \E i \in DOMAIN value.v : ~RowsValid(value.v[i].precipitation_per_timestep)
    THEN Invalid
    ELSE EventsVal([i \in DOMAIN value.v |->
            [value.v[i] EXCEPT !.precipitation_per_timestep = ToRows(@)]])

ToList(value) == IF value.t = "list" THEN value ELSE Invalid

(* the locations the model can name *)
KnownPaths ==
    LET made == {Div(dir, _generate_name(c)) : dir \in Folders, c \in Formats}
                   \cup {BoundPath(n) : n \in Nodes}
    IN made \cup {absolute(q) : q \in made}

(* Path(s) *)
PathFromStr(s) == CHOOSE q \in KnownPaths : str(q) = s

(* Optional[Path]: a path, or a string naming one *)
ToPath(value) ==
    CASE value.t \in {"path", "none"} -> value
      [] value.t = "str" -> PathVal(PathFromStr(value.v))
      [] OTHER -> Invalid

(* the declared fields of a format: required ones, and each one's coercion *)
Required(c) ==
    IF c = "BuiModel" THEN BuiFields \ {"default_dataset"} ELSE {"number_of_stations"}

Coerce(name, value) ==
    CASE name \in {"default_dataset", "number_of_stations", "number_of_events",
                   "seconds_per_timestep"} -> ToInt(value)
      [] name = "name_of_stations" -> ToList(value)
      [] name = "precipitation_events" -> ToEvents(value)
      [] name = "filepath" -> ToPath(value)
      [] OTHER -> value

Defaults == [name \in {"filepath", "default_dataset"} |->
                IF name = "filepath" THEN None ELSE IntVal(1)]

(* validation/coercion of a mapping into an entity of format c: defaults
   for absent fields, required fields present, declared fields coerced,
   other keys kept as given *)
Validate(c, mapping) ==
    LET coerced == [name \in DOMAIN mapping |-> Coerce(name, mapping[name])]
        entity == [name \in DOMAIN Defaults \cup DOMAIN coerced |->
                       IF name \in DOMAIN coerced THEN coerced[name] ELSE Defaults[name]]
    IN IF ~(Required(c) \subseteq DOMAIN mapping)
          \/ \E name \in DOMAIN coerced : coerced[name] = Invalid
       THEN [err |-> "ValidationError", entity |-> None]
       ELSE [err |-> "none", entity |-> entity]

(* lines 41-42: data["filepath"] = filepath; kwargs.update(data) *)
MergeLoaded(kwargs, data, filepath) ==
    LET located == [name \in DOMAIN data \cup {"filepath"} |->
                       IF name = "filepath" THEN filepath ELSE data[name]]
    IN [name \in DOMAIN kwargs \cup DOMAIN located |->
           IF name \in DOMAIN located THEN located[name] ELSE kwargs[name]]

NotSubmitted == [t |-> "not submitted"]

Call(filepath, kwargs, loaded, submitted, entity, error) ==
    [filepath |-> filepath, kwargs |-> kwargs, loaded |-> loaded,
     submitted |-> submitted, entity |-> entity, error |-> error]

(* a constructor that goes on with the explicit fields when the load fails *)
InitIgnoringLoadFailure(c, filepath, kwargs, file) ==
    LET loaded == IF filepath = None THEN [err |-> "none", data |-> <<>>] ELSE _load(file)
        merged == IF filepath = None \/ loaded.err # "none" THEN kwargs
                  ELSE MergeLoaded(kwargs, loaded.data, filepath)
        v == Validate(c, merged)
    IN Call(filepath, kwargs, loaded, merged, v.entity, v.err)

(* lines 37-43 *)
__init__(c, filepath, kwargs, file) ==
    LET loaded == IF filepath = None THEN [err |-> "none", data |-> <<>>] ELSE _load(file)
        merged == IF filepath = None THEN kwargs
                  ELSE MergeLoaded(kwargs, loaded.data, filepath)
        v == Validate(c, merged)
    IN IF loaded.err # "none"
       THEN Call(filepath, kwargs, loaded, NotSubmitted, None, loaded.err)
       ELSE Call(filepath, kwargs, loaded, merged, v.entity, v.err)

InitConstruct ==
    /\ fields = <<>>
    /\ cls = <<>>
    /\ folder = None
    /\ stack = <<>>
    /\ log = <<>>
    /\ disk = <<>>
    /\ now = 0
    /\ history = <<>>
    /\ cfile \in FileStates
    /\ ctor = None
    /\ dur = None

(* Model(filepath, **kwargs) *)
Construct(filepath, kwargs) ==
    /\ ctor' = __init__("FileModel", filepath, kwargs, cfile)
    /\ UNCHANGED <<saveVars, cfile, dur>>

NextConstruct ==
    \E filepath \in {None, PathVal(BoundPath(Root))} :
       \E kwargs \in Mappings({IntVal(1), IntVal(2), TextVal(<<"x">>)}) :
          Construct(filepath, kwargs)

SpecConstruct == InitConstruct /\ [][NextConstruct]_vars

(* C1: when a location is given, every key both parsed and explicitly
   supplied reaches validation with the explicit value, and filepath is the
   only key taken from the location argument. *)
C1_ExplicitOverridesParsed ==
    (ctor # None /\ ctor.filepath # None /\ ctor.submitted # NotSubmitted) =>
        /\ \A name \in DOMAIN ctor.loaded.data \cap DOMAIN ctor.kwargs :
              ctor.submitted[name] = ctor.kwargs[name]
        /\ ctor.submitted["filepath"] = ctor.filepath
        /\ \A name \in DOMAIN ctor.submitted \ {"filepath"} :
              name \in DOMAIN ctor.loaded.data \cup DOMAIN ctor.kwargs

ParseFailed == ctor # None /\ ctor.filepath # None /\ ctor.loaded.err # "none"

(* C9 as stated: a failed parse surfaces as LoadError, validation is not
   invoked and no entity results; a rejected mapping surfaces as
   ValidationError and no entity results. *)
C9_ParseFailureIsLoadError ==
    /\ ParseFailed =>
          /\ ctor.error = "LoadError"
          /\ ctor.submitted = NotSubmitted
          /\ ctor.entity = None
    /\ (ctor # None /\ ctor.submitted # NotSubmitted
          /\ Validate("FileModel", ctor.submitted).err # "none") =>
          /\ ctor.error = "ValidationError"
          /\ ctor.entity = None

(* C9 amended: a failed parse surfaces unchanged, as the parser raised it
   (LoadError for a missing file, FormatError for a malformed one),
   validation is not invoked and no entity results; a rejected mapping
   surfaces as ValidationError and no entity results. *)
C9_ParseFailurePropagates ==
    /\ ParseFailed =>
          /\ ctor.error = Parse(cfile).err
          /\ ctor.error \in {"LoadError", "FormatError"}
          /\ (cfile.kind = "missing" => ctor.error = "LoadError")
          /\ ctor.submitted = NotSubmitted
          /\ ctor.entity = None
    /\ (ctor # None /\ ctor.submitted # NotSubmitted
          /\ Validate("FileModel", ctor.submitted).err # "none") =>
          /\ ctor.error = "ValidationError"
          /\ ctor.entity = None
    /\ (ctor # None /\ ctor.entity # None) => ctor.error = "none"

C9_Witness ==
    /\ ParseFailed
    /\ cfile.kind = "malformed"
    /\ ctor.kwargs = [name \in {"number_of_stations"} |-> IntVal(1)]
    /\ ctor.error = "FormatError"


----------------------------------------------------------------------------
(* BuiModel: a document saved and constructed again from the file *)

MaxNameLen == 1
MaxStations == 2
MaxEvents == 2
MaxRows == 1

Alphabet == {"a", " ", "*"}

SeqsUpTo(S, lo, hi) == UNION {[1..k -> S] : k \in lo..hi}

Names == SeqsUpTo(Alphabet, 0, MaxNameLen)

NameLists == SeqsUpTo(Names, 1, MaxStations)

RowChoices == {<<2>>, <<42, 100>>}

HeaderChoices ==
    {[start_time |-> <<1996, 1, 1, 0, 0, 0>>, timeseries_length |-> 0],
     [start_time |-> <<2021, 12, 20, 0, 42, 24>>, timeseries_length |-> 90260]}

EventChoices ==
    {[start_time |-> h.start_time, timeseries_length |-> h.timeseries_length,
      precipitation_per_timestep |-> rows] :
        h \in HeaderChoices, rows \in SeqsUpTo(RowChoices, 0, MaxRows)}

EventLists == SeqsUpTo(EventChoices, 1, MaxEvents)

DefaultNames == <<(<<"a">>)>>

DefaultEvents ==
    <<[start_time |-> <<1996, 1, 1, 0, 0, 0>>, timeseries_length |-> 97200,
       precipitation_per_timestep |-> <<(<<2>>)>>]>>

DefaultSecondsPerTimestep == 10800

(* a BuiModel built from its fields *)
BuiModel(filepath, names, events) ==
    [name \in BuiFields \cup {"filepath"} |->
        CASE name = "filepath" -> filepath
          [] name = "default_dataset" -> IntVal(1)
          [] name = "number_of_stations" -> IntVal(Len(names))
          [] name = "name_of_stations" -> ListVal(names)
          [] name = "number_of_events" -> IntVal(Len(events))
          [] name = "seconds_per_timestep" -> IntVal(DefaultSecondsPerTimestep)
          [] OTHER -> EventsVal(events)]

InitBui ==
    /\ \E filepath \in {None, PathVal(BoundPath(Root))} :
          \/ \E names \in NameLists :
                fields = [n \in {Root} |-> BuiModel(filepath, names, DefaultEvents)]
          \/ \E events \in EventLists :
                fields = [n \in {Root} |-> BuiModel(filepath, DefaultNames, events)]
    /\ cls = [n \in {Root} |-> "BuiModel"]
    /\ folder = None
    /\ stack = <<>>
    /\ log = <<>>
    /\ disk = <<>>
    /\ now = 0
    /\ history = <<>>
    /\ cfile = None
    /\ ctor = None
    /\ dur = None

(* model.save(folder) on a document, which nests no FileModel:
   lines 56-80 with the loop of lines 65-69 finding nothing *)
SaveDocument(dir) ==
    /\ history = <<>>
    /\ LET fs == ResolveFilepath(fields, cls, Root, dir)
           filepath == fs[Root]["filepath"].v
           data == Update(ModelDict(fs[Root], {"filepath"}), <<>>)
           content == write_bui_file(filepath, data, now)
           failed == content.kind = "KeyError"
       IN /\ fields' = fs
          /\ folder' = PathVal(dir)
          /\ disk' = IF failed THEN disk ELSE WriteFile(disk, filepath, content)
          /\ history' = <<[folder |-> dir,
                           ret |-> IF failed THEN "KeyError" ELSE SaveReturn(filepath),
                           content |-> content, log |-> <<>>]>>
    /\ UNCHANGED <<cls, stack, log, now, ctorVars, dur>>

(* BuiModel(save_path) *)
LoadDocument ==
    /\ history # <<>>
    /\ Ok(history[1])
    /\ ctor = None
    /\ ctor' = __init__("BuiModel", StrVal(history[1].ret), <<>>,
                        FileAt(disk, history[1].ret))
    /\ UNCHANGED <<saveVars, cfile, dur>>

NextBui ==
    \/ \E dir \in Folders : SaveDocument(dir)
    \/ LoadDocument

SpecBui == InitBui /\ [][NextBui]_vars

Original == fields[Root]

SameFields ==
    /\ ctor.error = "none"
    /\ \A name \in BuiFields : ctor.entity[name] = Original[name]

(* C6 as stated: a document saved and constructed again from the returned
   location equals the original field by field. *)
C6_RoundTrip ==
    /\ \A k \in DOMAIN history : Ok(history[k])
    /\ ctor # None => SameFields

HasBlank(name) == \E i \in DOMAIN name : name[i] = " "

(* station names that survive the join by one space and the split on blanks,
   on a line that is not taken for a comment *)
NamesSurvive(names) ==
    /\ \A i \in DOMAIN names : names[i] # <<>> /\ ~HasBlank(names[i])
    /\ names[1][1] # "*"

(* C6 amended: a document whose station names are non-empty and hold no
   blank, and whose first station name does not start with the comment
   marker, equals the original field by field after save and construct. *)
C6_RoundTripOfSurvivingNames ==
    /\ \A k \in DOMAIN history : Ok(history[k])
    /\ (ctor # None /\ NamesSurvive(Original["name_of_stations"].v)) => SameFields

C6_Witness ==
    /\ ctor # None
    /\ SameFields
    /\ ctor.filepath = StrVal("/work/rel/bui_file.bui")
    /\ Original["name_of_stations"].v = << <<"a">>, <<"*">> >>

----------------------------------------------------------------------------
(* An event duration through the header text and back *)

MaxDays == 4
MaxTotal == 130

HourChoices == {0, 1, 23}
MinuteChoices == {0, 1, 33, 59}
SecondChoices == {0, 1, 20, 59}

(* the four duration integers of a header, each in its range *)
InRangeHeaders == (0..MaxDays) \X HourChoices \X MinuteChoices \X SecondChoices

(* elapsed times held by an event that was not read from a header *)
Totals == (0..MaxTotal) \cup {3599, 3600, 3601, 86399, 86400, 86401, 4 * 86400 + 2000}

InitDuration ==
    /\ fields = <<>>
    /\ cls = <<>>
    /\ folder = None
    /\ stack = <<>>
    /\ log = <<>>
    /\ disk = <<>>
    /\ now = 0
    /\ history = <<>>
    /\ cfile = None
    /\ ctor = None
    /\ \/ \E h \in InRangeHeaders :
             dur = [stage |-> "header",
                    line |-> JoinTokens([i \in 1..4 |-> IntToChars(h[i])])]
       \/ \E t \in Totals : dur = [stage |-> "parsed", line |-> <<>>, total |-> t]

(* the parser reads the four integers of the header as an elapsed time *)
ParseDuration ==
    /\ dur.stage = "header"
    /\ LET n == [i \in 1..4 |-> CharsToInt(Split(dur.line)[i])]
       IN dur' = [stage |-> "parsed", line |-> dur.line,
                  total |-> HeaderDuration(n[1], n[2], n[3], n[4])]
    /\ UNCHANGED <<saveVars, ctorVars>>

(* the serializer writes the elapsed time as four integers again *)
SerializeDuration ==
    /\ dur.stage = "parsed"
    /\ dur' = [stage |-> "serialized", line |-> dur.line, total |-> dur.total,
               parts |-> Decompose(dur.total),
               text |-> serialize_timeseries_length(dur.total)]
    /\ UNCHANGED <<saveVars, ctorVars>>

NextDuration == ParseDuration \/ SerializeDuration

SpecDuration == InitDuration /\ [][NextDuration]_vars

(* C7: the decomposition of a total of t seconds adds up to t again with
   hours < 24, minutes < 60 and seconds < 60, 4 days and 2000 seconds give
   4 0 33 20, and a header duration of four in-range integers comes back as
   the same four integers. *)
C7_DurationDecompositionInverse ==
    dur.stage = "serialized" =>
        LET p == dur.parts
        IN /\ p[1] * 86400 + p[2] * 3600 + p[3] * 60 + p[4] = dur.total
           /\ p[1] >= 0 /\ p[2] \in 0..23 /\ p[3] \in 0..59 /\ p[4] \in 0..59
           /\ dur.text = JoinTokens([i \in 1..4 |-> IntToChars(p[i])])
           /\ dur.line # <<>> => dur.text = dur.line
           /\ (dur.total = 4 * 86400 + 2000 => dur.text = <<"4", " ", "0", " ", "3", "3", " ", "2", "0">>)

C7_Witness ==
    /\ dur.stage = "serialized"
    /\ dur.total = 4 * 86400 + 2000
    /\ dur.parts = <<4, 0, 33, 20>>

----------------------------------------------------------------------------
(* Properties of save *)

Events(l) == [i \in DOMAIN l |-> <<l[i].ev, l[i].node>>]

(* the location save generates for instance n in folder dir *)
Generated(dir, n) == Div(dir, _generate_name(cls[n]))

(* C8: save(folder) on an entity with no bound location binds it to
   folder / (default filename + default extension), writes the file there
   and returns that location made absolute, as a string; for BuiModel in
   /out that is /out/bui_file.bui. *)
C8_SaveBindsDefaultLocation ==
    \A k \in DOMAIN history :
        LET h == history[k]
        IN \A i \in DOMAIN h.log :
              (h.log[i].ev = "enter" /\ h.log[i].was = None) =>
                LET n == h.log[i].node
                    loc == Generated(h.folder, n)
                    want == str(absolute(loc))
                IN /\ fields[n]["filepath"] = PathVal(loc)
                   /\ \A j \in DOMAIN h.log :
                         (j > i /\ h.log[j].ev = "write" /\ h.log[j].node = n) =>
                            /\ h.log[j].ret = want
                            /\ h.log[j].content.name = str(loc)
                            /\ want \in DOMAIN disk
                   /\ Ok(h) => \E j \in DOMAIN h.log :
                         j > i /\ h.log[j].ev = "write" /\ h.log[j].node = n
                   /\ (n = Root /\ Ok(h)) => h.ret = want
                   /\ (cls[n] = "BuiModel" /\ h.folder = Path(TRUE, <<"out">>) /\ n = Root
                         /\ Ok(h)) => h.ret = "/out/bui_file.bui"
                   /\ (cls[n] = "BuiModel" /\ h.folder = Path(FALSE, <<"rel">>) /\ n = Root
                         /\ Ok(h)) => h.ret = "/work/rel/bui_file.bui"

C8_Witness ==
    /\ Len(history) >= 1
    /\ Ok(history[1])
    /\ history[1].log[1].was = None
    /\ history[1].folder = Path(FALSE, <<"rel">>)
    /\ cls[Root] = "BuiModel"
    /\ "/work/rel/bui_file.bui" \in DOMAIN disk

(* C2: once an instance has a location, no step of any save changes it;
   every completed save returns the same location as the one before it and
   has written the file there. *)
C2_LocationFixed ==
    [][ /\ \A n \in Nodes :
              fields[n]["filepath"] # None =>
                  fields'[n]["filepath"] = fields[n]["filepath"]
        /\ \A i, j \in DOMAIN history' :
              (i < j /\ Ok(history'[i]) /\ Ok(history'[j])) =>
                  /\ history'[j].ret = history'[i].ret
                  /\ history'[j].content.name = history'[i].content.name
                  /\ history'[j].ret \in DOMAIN disk'
                  /\ history'[j].log[1].was # None ]_vars

C2_Witness ==
    /\ Len(history) = 2
    /\ Ok(history[1]) /\ Ok(history[2])
    /\ history[1].folder = history[2].folder
    /\ history[1].log[1].was = None
    /\ history[2].ret = history[1].ret

(* C3 as stated: two saves of the same entity into the same folder return
   the same location and write byte-identical contents. *)
C3_SaveTwiceIdentical ==
    \A i, j \in DOMAIN history :
        (i < j /\ Ok(history[i]) /\ Ok(history[j])
           /\ history[i].folder = history[j].folder) =>
            /\ history[j].ret = history[i].ret
            /\ history[j].content = history[i].content

(* C3 amended: two saves of the same entity into the same folder return the
   same location and write the same name line and the same mapping; the
   contents differ only in the time of construction, and are identical when
   both saves read the same clock value. *)
C3_SaveTwiceIdenticalButTime ==
    \A i, j \in DOMAIN history :
        (i < j /\ Ok(history[i]) /\ Ok(history[j])
           /\ history[i].folder = history[j].folder) =>
            /\ history[j].ret = history[i].ret
            /\ history[j].content.name = history[i].content.name
            /\ history[j].content.data = history[i].content.data
            /\ (history[j].content.time = history[i].content.time
                  => history[j].content = history[i].content)

C3_Witness ==
    /\ Len(history) = 2
    /\ Ok(history[1]) /\ Ok(history[2])
    /\ history[1].folder = history[2].folder
    /\ history[1].content.time # history[2].content.time
    /\ history[1].content.data = history[2].content.data

(* the files one completed call wrote *)
Written(h) == {h.log[i].ret : i \in {j \in DOMAIN h.log : h.log[j].ev = "write"}}

TwoLeafChildren ==
    /\ isFileModel(fields[Root]["a"]) /\ isFileModel(fields[Root]["b"])
    /\ Cardinality({Root, fields[Root]["a"].v, fields[Root]["b"].v}) = 3
    /\ \A n \in Nodes \ {Root} : Children(fields, n) = {}

(* C4: save on a root with two nested FileModel fields, bound or unbound and
   of any format, writes three files, and the mapping handed to the root's
   serializer holds each child's returned location under the field's name. *)
C4_ThreeFiles ==
    \A k \in DOMAIN history :
        (TwoLeafChildren /\ Ok(history[k])) =>
            /\ Cardinality(Written(history[k])) = 3
            /\ \A c \in {"a", "b"} :
                  history[k].content.data[c] =
                      StrVal(SaveReturn(fields[fields[Root][c].v]["filepath"].v))

(* C5: save on a graph with a reference cycle fails with CycleError before
   any file is written. *)
C5_CycleFailsFast ==
    \A k \in DOMAIN history :
        Cyclic(fields, Root) =>
            /\ history[k].ret = "CycleError"
            /\ Written(history[k]) = {}

(* depth-first in declaration order: enter, the nested fields in the order
   declared, then the write *)
RECURSIVE TraceFrom(_, _)
TraceFrom(n, depth) ==
    LET idxs == {i \in DOMAIN FieldNames(n) : isFileModel(fields[n][FieldNames(n)[i]])}
        Sub[i \in 0..Len(FieldNames(n))] ==
            IF i = 0 THEN <<>>
            ELSE IF i \in idxs
                 THEN Sub[i - 1] \o TraceFrom(fields[n][FieldNames(n)[i]].v, depth - 1)
                 ELSE Sub[i - 1]
    IN IF depth = 0 THEN <<(<<"cycle", n>>)>>
       ELSE <<(<<"enter", n>>)>> \o Sub[Len(FieldNames(n))] \o <<(<<"write", n>>)>>

(* no acyclic graph is deeper than it has nodes *)
Trace(n) == TraceFrom(n, Cardinality(Nodes))

(* C10: within one save every nested field is entered after its parent's
   location is resolved and written, with its own descendants, before the
   parent's serializer runs; siblings go in declaration order; the same
   graph gives the same sequence every time. *)
C10_DepthFirstDeclarationOrder ==
    /\ \A k \in DOMAIN history :
          Ok(history[k]) =>
             /\ Events(history[k].log) = Trace(Root)
             /\ history[k].log[1] = [ev |-> "enter", node |-> Root,
                                     was |-> history[k].log[1].was]
             /\ \A j \in DOMAIN history[k].log :
                   history[k].log[j].ev = "write" =>
                      \A c \in Children(fields, history[k].log[j].node) :
                         \E i \in 1..(j - 1) :
                            /\ history[k].log[i].ev = "write"
                            /\ history[k].log[i].node = c
    /\ \A i, j \in DOMAIN history :
          (Ok(history[i]) /\ Ok(history[j])) =>
             Events(history[i].log) = Events(history[j].log)
    /\ \A j \in DOMAIN log :
          (log[j].ev = "enter" /\ j > 1) =>
             \E i \in 1..(j - 1) :
                /\ log[i].ev = "enter"
                /\ log[j].node \in Children(fields, log[i].node)
                /\ fields[log[i].node]["filepath"] # None

C10_Witness ==
    /\ Len(history) >= 1
    /\ Ok(history[1])
    /\ Events(history[1].log) =
          << <<"enter", 1>>, <<"enter", 2>>, <<"enter", 3>>, <<"write", 3>>,
             <<"write", 2>>, <<"enter", 3>>, <<"write", 3>>, <<"write", 1>> >>

====
